---------------------------- MODULE Spec2Model ----------------------------
(***************************************************************************)
(* A model of server_monitor/agent/cpu/cpu_monitor.py: the four getters    *)
(* over psutil, and collect_cpu_metrics() which merges them with a         *)
(* timestamp.                                                              *)
(*                                                                         *)
(* Floats are modelled as integers (-1.0 is -1, 0.0 is 0).  The host's     *)
(* system-statistics facility (psutil, time) is the environment: its       *)
(* readings are a function of the variable `host`, so that "the same       *)
(* facility state" is something two calls can be compared on.  A Python    *)
(* exception is the outcome [status |-> "raised", error |-> <kind>].       *)
(***************************************************************************)
EXTENDS Integers, Sequences, FiniteSets, TLC

VARIABLES
    host,   \* the facility: clock, CPU counters, sampling baselines, platform, call log
    last,   \* the last call made of this module: what it saw and what it gave back
    prior,  \* the getter call before `last` (one step of history)
    twin    \* the same collect call re-run with one facility outcome changed

vars == <<host, last, prior, twin>>

(***************************** bounds **************************************)
MaxClock == 1      \* cap on the wall clock

(************************* program constants *******************************)
Sentinel == -1     \* -1.0, the "load average unsupported" value
Default  == 0      \* 0.0, the value of a CPU-time state the platform lacks

LoadKeys == {"load_1_min", "load_5_min", "load_15_min"}

FieldOrder ==
    <<"user", "system", "idle", "nice", "iowait",
      "irq", "softirq", "steal", "guest", "guest_nice">>

StateNames == {FieldOrder[i] : i \in 1..Len(FieldOrder)}

MetricsKeys ==
    {"timestamp", "cpu_usage_per_core", "cpu_usage_average",
     "load_average", "cpu_times_percent"}

(*************************** the facility **********************************)
\* Fields some platforms report beyond the ten of CPUTimesPercent.
ExtraNames == {"interrupt", "dpc"}

FacilityFields == StateNames \cup ExtraNames

\* The hosts the module runs on: whether the load average is there, which CPU-time
\* states the platform has, its logical cores, and the load it reports.
Platforms ==
    { [loadSupport |-> "ok", ncores |-> 2, loadavg |-> <<5, 10, 15>>,
       fields |-> StateNames],
      [loadSupport |-> "ok", ncores |-> 1, loadavg |-> <<9, 12, 0>>,
       fields |-> {"user", "nice", "system", "idle"}],
      [loadSupport |-> "AttributeError", ncores |-> 2, loadavg |-> <<0, 0, 0>>,
       fields |-> {"user", "system", "idle", "interrupt", "dpc"}],
      [loadSupport |-> "NotImplementedError", ncores |-> 1, loadavg |-> <<0, 0, 0>>,
       fields |-> {"user", "system", "idle", "iowait"}] }

Queries ==
    {"cpu_percent(percpu=True)", "cpu_percent(percpu=False)",
     "getloadavg", "cpu_times_percent"}

NoValue == "none"

RECURSIVE SumTo(_, _)
SumTo(f, n) == IF n = 0 THEN 0 ELSE f[n] + SumTo(f, n - 1)

Cores(h) == 1..h.ncores

Total(h) == SumTo(h.busy, h.ncores)

FieldNo(f) ==
    IF f \in StateNames
    THEN CHOOSE i \in 1..Len(FieldOrder) : FieldOrder[i] = f
    ELSE IF f = "interrupt" THEN 11 ELSE 12

Logged(h, name) == [h EXCEPT !.calls = Append(@, name)]

Ok(v, nxt)    == [kind |-> "ok", value |-> v, next |-> nxt]
Fails(e, nxt) == [kind |-> e, value |-> NoValue, next |-> nxt]

\* time.time(): the wall clock; it never fails and has no baseline.
time_time(h) == Ok(h.clock, Logged(h, "time.time"))

\* psutil.cpu_percent(interval=None, percpu=...): utilisation since the previous
\* call of the same kind, whose moment becomes the new baseline.
cpu_percent(h, percpu, faults) ==
    IF percpu
    THEN LET g == Logged(h, "cpu_percent(percpu=True)")
         IN  IF "cpu_percent(percpu=True)" \in faults
             THEN Fails("OSError", g)
             ELSE Ok([i \in Cores(h) |-> h.busy[i] - h.lastPerCpu[i]],
                     [g EXCEPT !.lastPerCpu = h.busy])
    ELSE LET g == Logged(h, "cpu_percent(percpu=False)")
         IN  IF "cpu_percent(percpu=False)" \in faults
             THEN Fails("OSError", g)
             ELSE Ok(Total(h) - h.lastCpu, [g EXCEPT !.lastCpu = Total(h)])

\* psutil.getloadavg(): absent or unimplemented on some platforms.
getloadavg(h, faults) ==
    LET g == Logged(h, "getloadavg")
    IN  IF h.loadSupport # "ok" THEN Fails(h.loadSupport, g)
        ELSE IF "getloadavg" \in faults THEN Fails("OSError", g)
        ELSE Ok(h.loadavg, g)

\* psutil.cpu_times_percent(): a namedtuple of the states this platform has.
cpu_times_percent(h, faults) ==
    LET g == Logged(h, "cpu_times_percent")
    IN  IF "cpu_times_percent" \in faults
        THEN Fails("OSError", g)
        ELSE Ok([f \in h.fields |-> FieldNo(f) + 20 * (Total(h) - h.lastTimes)],
                [g EXCEPT !.lastTimes = Total(h)])

\* getattr(obj, name, default)
getattr(obj, name, default) ==
    IF name \in DOMAIN obj THEN obj[name] ELSE default

(***************************** the module **********************************)
Returned(v, nxt) == [status |-> "returned", value |-> v, error |-> "none", next |-> nxt]
Raised(e, nxt)   == [status |-> "raised", value |-> NoValue, error |-> e, next |-> nxt]

\* Variant: a reading of 0.0 on every core is treated as a failed sample.
get_cpu_usage_per_core_ZeroIsError(h, faults) ==
    LET r == cpu_percent(h, TRUE, faults)
    IN  IF r.kind # "ok" THEN Raised(r.kind, r.next)
        ELSE IF \A i \in Cores(h) : r.value[i] = 0 THEN Raised("ValueError", r.next)
        ELSE Returned(r.value, r.next)

\* Variant: the per-core getter asks for the aggregate (percpu=False).
get_cpu_usage_per_core_Aggregate(h, faults) ==
    LET r == cpu_percent(h, FALSE, faults)
    IN  IF r.kind = "ok"
        THEN Returned([i \in Cores(h) |-> r.value], r.next)
        ELSE Raised(r.kind, r.next)

get_cpu_usage_per_core(h, faults) ==
    LET r == cpu_percent(h, TRUE, faults)
    IN  IF r.kind = "ok" THEN Returned(r.value, r.next) ELSE Raised(r.kind, r.next)

\* Variant: a failed aggregate query is swallowed and 0.0 handed back.
get_cpu_usage_average_Defaulted(h, faults) ==
    LET r == cpu_percent(h, FALSE, faults)
    IN  IF r.kind = "ok" THEN Returned(r.value, r.next) ELSE Returned(Default, r.next)

\* Variant: a priming call precedes the real one, to dodge the first-call 0.0.
get_cpu_usage_average_Primed(h, faults) ==
    LET w == cpu_percent(h, FALSE, faults)
        r == cpu_percent(w.next, FALSE, faults)
    IN  IF r.kind = "ok" THEN Returned(r.value, r.next) ELSE Raised(r.kind, r.next)

get_cpu_usage_average(h, faults) ==
    LET r == cpu_percent(h, FALSE, faults)
    IN  IF r.kind = "ok" THEN Returned(r.value, r.next) ELSE Raised(r.kind, r.next)

\* Variant: `except Exception`, every failure becomes the sentinel.
get_load_average_CatchAll(h, faults) ==
    LET r == getloadavg(h, faults)
    IN  IF r.kind = "ok"
        THEN Returned([load_1_min  |-> r.value[1],
                       load_5_min  |-> r.value[2],
                       load_15_min |-> r.value[3]], r.next)
        ELSE Returned([load_1_min  |-> Sentinel,
                       load_5_min  |-> Sentinel,
                       load_15_min |-> Sentinel], r.next)

\* Variant: `except AttributeError` only.
get_load_average_AttributeOnly(h, faults) ==
    LET r == getloadavg(h, faults)
    IN  IF r.kind = "ok"
        THEN Returned([load_1_min  |-> r.value[1],
                       load_5_min  |-> r.value[2],
                       load_15_min |-> r.value[3]], r.next)
        ELSE IF r.kind = "AttributeError"
        THEN Returned([load_1_min  |-> Sentinel,
                       load_5_min  |-> Sentinel,
                       load_15_min |-> Sentinel], r.next)
        ELSE Raised(r.kind, r.next)

\* Variant: the module keeps the previous load record and adds it to the new one.
get_load_average_Smoothed(h, faults) ==
    LET r    == getloadavg(h, faults)
        kept == IF last.op = "get_load_average" /\ last.status = "returned"
                THEN last.value
                ELSE [load_1_min |-> 0, load_5_min |-> 0, load_15_min |-> 0]
    IN  IF r.kind = "ok"
        THEN Returned([load_1_min  |-> r.value[1] + kept.load_1_min,
                       load_5_min  |-> r.value[2] + kept.load_5_min,
                       load_15_min |-> r.value[3] + kept.load_15_min], r.next)
        ELSE IF r.kind \in {"AttributeError", "NotImplementedError"}
        THEN Returned([load_1_min  |-> Sentinel,
                       load_5_min  |-> Sentinel,
                       load_15_min |-> Sentinel], r.next)
        ELSE Raised(r.kind, r.next)

get_load_average(h, faults) ==
    LET r == getloadavg(h, faults)
    IN  IF r.kind = "ok"
        THEN Returned([load_1_min  |-> r.value[1],
                       load_5_min  |-> r.value[2],
                       load_15_min |-> r.value[3]], r.next)
        ELSE IF r.kind \in {"AttributeError", "NotImplementedError"}
        THEN Returned([load_1_min  |-> Sentinel,
                       load_5_min  |-> Sentinel,
                       load_15_min |-> Sentinel], r.next)
        ELSE Raised(r.kind, r.next)

\* Variant: `guest` is read from the facility's `guest_nice`.
get_cpu_times_percent_Swapped(h, faults) ==
    LET r == cpu_times_percent(h, faults)
    IN  IF r.kind # "ok" THEN Raised(r.kind, r.next)
        ELSE LET times == r.value
             IN  Returned([user       |-> getattr(times, "user", Default),
                           system     |-> getattr(times, "system", Default),
                           idle       |-> getattr(times, "idle", Default),
                           nice       |-> getattr(times, "nice", Default),
                           iowait     |-> getattr(times, "iowait", Default),
                           irq        |-> getattr(times, "irq", Default),
                           softirq    |-> getattr(times, "softirq", Default),
                           steal      |-> getattr(times, "steal", Default),
                           guest      |-> getattr(times, "guest_nice", Default),
                           guest_nice |-> getattr(times, "guest_nice", Default)],
                          r.next)

\* Variant: the facility's namedtuple is handed back as it is (times._asdict()).
get_cpu_times_percent_AsDict(h, faults) ==
    LET r == cpu_times_percent(h, faults)
    IN  IF r.kind # "ok" THEN Raised(r.kind, r.next) ELSE Returned(r.value, r.next)

get_cpu_times_percent(h, faults) ==
    LET r == cpu_times_percent(h, faults)
    IN  IF r.kind # "ok" THEN Raised(r.kind, r.next)
        ELSE LET times == r.value
             IN  Returned([user       |-> getattr(times, "user", Default),
                           system     |-> getattr(times, "system", Default),
                           idle       |-> getattr(times, "idle", Default),
                           nice       |-> getattr(times, "nice", Default),
                           iowait     |-> getattr(times, "iowait", Default),
                           irq        |-> getattr(times, "irq", Default),
                           softirq    |-> getattr(times, "softirq", Default),
                           steal      |-> getattr(times, "steal", Default),
                           guest      |-> getattr(times, "guest", Default),
                           guest_nice |-> getattr(times, "guest_nice", Default)],
                          r.next)

\* Variant: the average is not the facility's own but taken from the per-core list.
CPUMetrics_AverageFromCores(ts, core, avg, load, times) ==
    [timestamp          |-> ts,
     cpu_usage_per_core |-> core,
     cpu_usage_average  |-> core[1],
     load_average       |-> load,
     cpu_times_percent  |-> times]

\* The dict display of collect_cpu_metrics.
CPUMetrics(ts, core, avg, load, times) ==
    [timestamp          |-> ts,
     cpu_usage_per_core |-> core,
     cpu_usage_average  |-> avg,
     load_average       |-> load,
     cpu_times_percent  |-> times]

\* An exception leaving collect_cpu_metrics: no record, only the sub-results so far.
Propagate(r, parts) ==
    [status |-> "raised", value |-> NoValue, error |-> r.error, next |-> r.next,
     parts |-> parts]

\* The values of the dict display are evaluated left to right; the first one that
\* raises ends the call.  `parts` is what each sub-call handed back.
collect_cpu_metrics(h, faults) ==
    LET t == time_time(h)
        c == get_cpu_usage_per_core(t.next, faults)
    IN  IF c.status = "raised" THEN Propagate(c, <<t.value>>)
        ELSE LET a == get_cpu_usage_average(c.next, faults)
        IN  IF a.status = "raised" THEN Propagate(a, <<t.value, c.value>>)
        ELSE LET l == get_load_average(a.next, faults)
        IN  IF l.status = "raised" THEN Propagate(l, <<t.value, c.value, a.value>>)
        ELSE LET p == get_cpu_times_percent(l.next, faults)
        IN  IF p.status = "raised"
            THEN Propagate(p, <<t.value, c.value, a.value, l.value>>)
            ELSE [status |-> "returned",
                  value  |-> CPUMetrics(t.value, c.value, a.value, l.value, p.value),
                  error  |-> "none",
                  next   |-> p.next,
                  parts  |-> <<t.value, c.value, a.value, l.value, p.value>>]

(************************ the state machine ********************************)
Getters ==
    {"get_cpu_usage_per_core", "get_cpu_usage_average",
     "get_load_average", "get_cpu_times_percent"}

\* The facility's state proper: everything but the wall clock and the call log.
Facility(h) ==
    [busy |-> h.busy, lastPerCpu |-> h.lastPerCpu, lastCpu |-> h.lastCpu,
     lastTimes |-> h.lastTimes, loadavg |-> h.loadavg,
     loadSupport |-> h.loadSupport, fields |-> h.fields, ncores |-> h.ncores]

\* How the facility answers query q in state h under the transient faults.
Answer(h, faults, q) ==
    IF q = "getloadavg" THEN getloadavg(h, faults).kind
    ELSE IF q \in faults THEN "OSError" ELSE "ok"

Invoked(h) == {h.calls[i] : i \in 1..Len(h.calls)}

NoCall ==
    [op |-> "none", at |-> 0, seen |-> NoValue, answers |-> <<>>, reading |-> NoValue,
     status |-> "none", value |-> NoValue, error |-> "none", parts |-> <<>>]

NoPrior == [op |-> "none", value |-> NoValue]

NoTwin ==
    [changed |-> "none", answers |-> <<>>, status |-> "none", value |-> NoValue,
     error |-> "none", parts |-> <<>>, calls |-> <<>>]

Fresh(h) == [h EXCEPT !.calls = <<>>]

\* The record of a finished call: what the facility was and answered, what came back.
Record(name, h0, faults, reading, r) ==
    [op      |-> name,
     at      |-> h0.clock,
     seen    |-> Facility(h0),
     answers |-> [q \in Invoked(r.next) \ {"time.time"} |-> Answer(h0, faults, q)],
     reading |-> reading,
     status  |-> r.status,
     value   |-> r.value,
     error   |-> r.error,
     parts   |-> IF name = "collect_cpu_metrics" THEN r.parts ELSE <<>>]

\* The previous call, kept when this one repeats it on an unchanged facility.
Repeats(name, h0, r) ==
    IF /\ last.op = name
       /\ last.status = "returned"
       /\ r.status = "returned"
       /\ last.seen = Facility(h0)
    THEN [op |-> name, value |-> last.value]
    ELSE NoPrior

Init ==
    /\ \E p \in Platforms :
          host = [clock       |-> 0,
                  ncores      |-> p.ncores,
                  busy        |-> [i \in 1..p.ncores |-> 0],
                  lastPerCpu  |-> [i \in 1..p.ncores |-> 0],
                  lastCpu     |-> 0,
                  lastTimes   |-> 0,
                  loadavg     |-> p.loadavg,
                  loadSupport |-> p.loadSupport,
                  fields      |-> p.fields,
                  calls       |-> <<>>]
    /\ last = NoCall
    /\ prior = NoPrior
    /\ twin = NoTwin

\* The environment: time passes, and each core was busy or idle meanwhile.
Tick ==
    \E working \in SUBSET Cores(host) :
        /\ host.clock < MaxClock
        /\ host' = [host EXCEPT
                       !.clock = @ + 1,
                       !.busy  = [i \in Cores(host) |->
                                     IF i \in working THEN @[i] + 1 ELSE @[i]]]
        /\ UNCHANGED <<last, prior, twin>>

Call_get_cpu_usage_per_core ==
    \E faults \in SUBSET {"cpu_percent(percpu=True)"} :
        LET h0 == Fresh(host)
            r  == get_cpu_usage_per_core(h0, faults)
        IN  /\ host' = r.next
            /\ last' = Record("get_cpu_usage_per_core", h0, faults,
                              cpu_percent(h0, TRUE, faults).value, r)
            /\ prior' = Repeats("get_cpu_usage_per_core", h0, r)
            /\ twin' = NoTwin

Call_get_cpu_usage_average ==
    \E faults \in SUBSET {"cpu_percent(percpu=False)"} :
        LET h0 == Fresh(host)
            r  == get_cpu_usage_average(h0, faults)
        IN  /\ host' = r.next
            /\ last' = Record("get_cpu_usage_average", h0, faults,
                              cpu_percent(h0, FALSE, faults).value, r)
            /\ prior' = Repeats("get_cpu_usage_average", h0, r)
            /\ twin' = NoTwin

Call_get_load_average ==
    \E faults \in SUBSET {"getloadavg"} :
        LET h0 == Fresh(host)
            r  == get_load_average(h0, faults)
        IN  /\ host' = r.next
            /\ last' = Record("get_load_average", h0, faults,
                              getloadavg(h0, faults).value, r)
            /\ prior' = Repeats("get_load_average", h0, r)
            /\ twin' = NoTwin

Call_get_cpu_times_percent ==
    \E faults \in SUBSET {"cpu_times_percent"} :
        LET h0 == Fresh(host)
            r  == get_cpu_times_percent(h0, faults)
        IN  /\ host' = r.next
            /\ last' = Record("get_cpu_times_percent", h0, faults,
                              cpu_times_percent(h0, faults).value, r)
            /\ prior' = Repeats("get_cpu_times_percent", h0, r)
            /\ twin' = NoTwin

\* collect_cpu_metrics() under the transient faults of this cycle.
Collected(faults) ==
    LET h0 == Fresh(host)
        r  == collect_cpu_metrics(h0, faults)
    IN  /\ host' = r.next
        /\ last' = Record("collect_cpu_metrics", h0, faults, NoValue, r)
        /\ prior' = NoPrior

Call_collect_cpu_metrics ==
    \E faults \in SUBSET Queries :
        /\ Collected(faults)
        /\ twin' = NoTwin

\* The faults and the load support under which query q is answered `alt`, all
\* other queries being answered as under (h, faults).
Changed(h, faults, q, alt) ==
    IF q # "getloadavg"
    THEN [host   |-> h,
          faults |-> IF alt = "ok" THEN faults \ {q} ELSE faults \cup {q}]
    ELSE [host   |-> [h EXCEPT !.loadSupport =
                         IF alt \in {"AttributeError", "NotImplementedError"}
                         THEN alt ELSE "ok"],
          faults |-> IF alt = "OSError" THEN faults \cup {q} ELSE faults \ {q}]

Alternatives(q) ==
    IF q = "getloadavg"
    THEN {"ok", "AttributeError", "NotImplementedError", "OSError"}
    ELSE {"ok", "OSError"}

\* collect_cpu_metrics(), together with the same call on the same facility state in
\* which exactly one query, q, is answered differently.
Pair_collect_cpu_metrics ==
    \E faults \in SUBSET Queries, q \in Queries :
      \E alt \in Alternatives(q) \ {Answer(host, faults, q)} :
        LET c  == Changed(Fresh(host), faults, q, alt)
            r2 == collect_cpu_metrics(c.host, c.faults)
        IN  /\ Collected(faults)
            /\ twin' = [changed |-> q,
                        answers |-> [x \in Invoked(r2.next) \ {"time.time"} |->
                                        Answer(c.host, c.faults, x)],
                        status  |-> r2.status,
                        value   |-> r2.value,
                        error   |-> r2.error,
                        parts   |-> r2.parts,
                        calls   |-> r2.next.calls]

Next ==
    \/ Tick
    \/ Call_get_cpu_usage_per_core
    \/ Call_get_cpu_usage_average
    \/ Call_get_load_average
    \/ Call_get_cpu_times_percent
    \/ Call_collect_cpu_metrics

Spec == Init /\ [][Next]_vars

\* get_cpu_times_percent() alone, on a platform with any subset of the ten states.
InitTimes ==
    /\ \E S \in SUBSET StateNames :
          host = [clock       |-> 0,
                  ncores      |-> 1,
                  busy        |-> [i \in 1..1 |-> 0],
                  lastPerCpu  |-> [i \in 1..1 |-> 0],
                  lastCpu     |-> 0,
                  lastTimes   |-> 0,
                  loadavg     |-> <<5, 10, 15>>,
                  loadSupport |-> "ok",
                  fields      |-> S,
                  calls       |-> <<>>]
    /\ last = NoCall
    /\ prior = NoPrior
    /\ twin = NoTwin

NextTimes ==
    \/ Tick
    \/ Call_get_cpu_times_percent

SpecTimes == InitTimes /\ [][NextTimes]_vars

\* Collection cycles alone, each compared with its twin.
NextPair ==
    \/ Tick
    \/ Pair_collect_cpu_metrics

SpecPair == Init /\ [][NextPair]_vars

(******************************* claims ***********************************)
IsCall(name) == last.op = name

SentinelLoad ==
    [load_1_min |-> Sentinel, load_5_min |-> Sentinel, load_15_min |-> Sentinel]

Unsupported == {"AttributeError", "NotImplementedError"}

\* C1: get_load_average() has three outcomes, decided by the facility's answer
\* alone: "attribute absent" or "not implemented" gives the all-sentinel record
\* and no error; a success (a, b, c) gives {a, b, c} unchanged; any other failure
\* propagates.  The record is never a mix of sentinel and facility values.
C1_LoadAverageOutcomes ==
    IsCall("get_load_average") =>
        LET k == last.answers["getloadavg"]
        IN  /\ k \in Unsupported =>
                /\ last.status = "returned"
                /\ last.value = SentinelLoad
            /\ k = "ok" =>
                /\ last.status = "returned"
                /\ last.value = [load_1_min  |-> last.seen.loadavg[1],
                                 load_5_min  |-> last.seen.loadavg[2],
                                 load_15_min |-> last.seen.loadavg[3]]
            /\ k \notin Unsupported \cup {"ok"} =>
                /\ last.status = "raised"
                /\ last.error = k

C1_Witness ==
    /\ IsCall("get_load_average")
    /\ last.answers["getloadavg"] = "NotImplementedError"
    /\ last.status = "returned"
    /\ last.value.load_15_min = Sentinel

\* C2: whatever subset S of the ten state names the facility populates,
\* get_cpu_times_percent() returns all ten fields, those in S with the facility's
\* value and the others 0.0.
C2_AllTenFields ==
    (IsCall("get_cpu_times_percent") /\ last.status = "returned") =>
        /\ DOMAIN last.value = StateNames
        /\ \A f \in StateNames :
              last.value[f] = IF f \in last.seen.fields THEN last.reading[f] ELSE Default

C2_Witness ==
    /\ IsCall("get_cpu_times_percent")
    /\ last.status = "returned"
    /\ last.seen.fields = {"user", "system", "idle", "iowait"}
    /\ last.value["iowait"] = last.reading["iowait"]
    /\ last.value["iowait"] # Default
    /\ last.value["guest"] = Default

\* C3: a record returned by collect_cpu_metrics() is the union of the five values
\* obtained during the call, each under its own key and unaltered; the timestamp
\* is the clock reading.
C3_ExactUnion ==
    (IsCall("collect_cpu_metrics") /\ last.status = "returned") =>
        /\ Len(last.parts) = 5
        /\ last.parts[1] = last.at
        /\ last.value = [timestamp          |-> last.parts[1],
                         cpu_usage_per_core |-> last.parts[2],
                         cpu_usage_average  |-> last.parts[3],
                         load_average       |-> last.parts[4],
                         cpu_times_percent  |-> last.parts[5]]

C3_Witness ==
    /\ IsCall("collect_cpu_metrics")
    /\ last.status = "returned"
    /\ last.value.timestamp = 1
    /\ last.value.cpu_usage_per_core = <<1, 0>>
    /\ last.value.cpu_usage_average = 1
    /\ last.value.load_average.load_5_min = 10

Answered(run, q) == q \in DOMAIN run.answers

\* C4: a failure of the per-core, average or times query during
\* collect_cpu_metrics() propagates and no record is returned; only an unsupported
\* load average is recovered, and the record returned then is complete and
\* carries the load sentinel.
C4_NoPartialRecord ==
    IsCall("collect_cpu_metrics") =>
        /\ \A q \in Queries \ {"getloadavg"} :
              (Answered(last, q) /\ last.answers[q] # "ok") =>
                  /\ last.status = "raised"
                  /\ last.error = last.answers[q]
                  /\ last.value = NoValue
        /\ last.status = "returned" =>
              /\ DOMAIN last.answers = Queries
              /\ \A q \in Queries \ {"getloadavg"} : last.answers[q] = "ok"
              /\ last.answers["getloadavg"] \in Unsupported \cup {"ok"}
              /\ DOMAIN last.value = MetricsKeys
              /\ last.answers["getloadavg"] \in Unsupported =>
                    last.value.load_average = SentinelLoad
        /\ ( /\ DOMAIN last.answers = Queries
             /\ \A q \in Queries \ {"getloadavg"} : last.answers[q] = "ok"
             /\ last.answers["getloadavg"] \in Unsupported ) =>
              last.status = "returned"

C4_Witness ==
    /\ IsCall("collect_cpu_metrics")
    /\ Answered(last, "cpu_times_percent")
    /\ last.answers["getloadavg"] = "AttributeError"
    /\ last.answers["cpu_times_percent"] = "OSError"
    /\ last.status = "raised"

C6_RecordShape ==
    (IsCall("collect_cpu_metrics") /\ last.status = "returned") =>
        /\ DOMAIN last.value = MetricsKeys
        /\ DOMAIN last.value.load_average = LoadKeys
        /\ DOMAIN last.value.cpu_times_percent = StateNames

C6_Witness ==
    /\ IsCall("collect_cpu_metrics")
    /\ last.status = "returned"
    /\ last.seen.loadSupport = "AttributeError"
    /\ "dpc" \in last.seen.fields
    /\ "nice" \notin last.seen.fields

\* C7: get_cpu_usage_per_core() returns the facility's per-core reading as it
\* is: one element per logical core, element i the value of core i; a reading of
\* 0.0 on every core is an ordinary result.
C7_PerCoreAsIs ==
    IsCall("get_cpu_usage_per_core") =>
        /\ last.answers["cpu_percent(percpu=True)"] = "ok" => last.status = "returned"
        /\ last.status = "returned" =>
              /\ Len(last.value) = last.seen.ncores
              /\ \A i \in 1..last.seen.ncores :
                    last.value[i] = last.seen.busy[i] - last.seen.lastPerCpu[i]

C7_Witness ==
    /\ IsCall("get_cpu_usage_per_core")
    /\ last.status = "returned"
    /\ last.at = 0
    /\ last.value = <<0, 0>>

\* The sampling baseline each baseline-keeping query measures from.
Baseline(h, q) ==
    IF q = "cpu_percent(percpu=True)" THEN h.lastPerCpu
    ELSE IF q = "cpu_percent(percpu=False)" THEN h.lastCpu
    ELSE h.lastTimes

\* The moment of a call, as query q's baseline records it.
Moment(f, q) ==
    IF q = "cpu_percent(percpu=True)" THEN f.busy ELSE SumTo(f.busy, f.ncores)

Sampling == Queries \ {"getloadavg"}

\* The facility queries each operation of the module is written to make.
Samples(name) ==
    IF name = "get_cpu_usage_per_core" THEN {"cpu_percent(percpu=True)"}
    ELSE IF name = "get_cpu_usage_average" THEN {"cpu_percent(percpu=False)"}
    ELSE IF name = "get_cpu_times_percent" THEN {"cpu_times_percent"}
    ELSE IF name = "collect_cpu_metrics" THEN Sampling
    ELSE {}

\* C8 (as stated): the facility's sampling baselines are only read: after any
\* sequence of calls they are what they would be had no call been made, that is,
\* what they were when the process started.
C8_BaselineReadOnly ==
    \A q \in Sampling :
        Baseline(host, q) = IF q = "cpu_percent(percpu=True)"
                            THEN [i \in Cores(host) |-> 0]
                            ELSE 0

\* C8 (amended): the module keeps no baseline of its own, but its sampling calls
\* write the facility's: a call moves the baseline of each sampling query it
\* makes that is answered to the moment of the call, and leaves the other
\* baselines as they were; get_load_average() moves none.
C8_BaselineMovedBySampling ==
    last.op # "none" =>
        \A q \in Sampling :
            Baseline(host, q) =
                IF q \in Samples(last.op) /\ Answered(last, q) /\ last.answers[q] = "ok"
                THEN Moment(last.seen, q)
                ELSE Baseline(last.seen, q)

C8_Witness ==
    /\ IsCall("get_cpu_usage_per_core")
    /\ last.status = "returned"
    /\ last.seen.lastPerCpu = <<0, 0>>
    /\ host.lastPerCpu = <<1, 1>>
    /\ host.lastCpu = 0
    /\ host.lastTimes = 0

Order ==
    <<"time.time", "cpu_percent(percpu=True)", "cpu_percent(percpu=False)",
      "getloadavg", "cpu_times_percent">>

Pos(q) == CHOOSE i \in 1..Len(Order) : Order[i] = q

\* A facility answer that does not end the call: a success, or the unsupported
\* load average that get_load_average() recovers.
Recovered(q, k) == k = "ok" \/ (q = "getloadavg" /\ k \in Unsupported)

\* What became of sub-query q in a run of collect_cpu_metrics() whose call log is
\* `calls`.
Fate(run, calls, q) ==
    IF \A i \in 1..Len(calls) : calls[i] # q THEN "not invoked"
    ELSE IF Pos(q) <= Len(run.parts) THEN "returned"
    ELSE "raised"

SameOutcome(q) ==
    LET a == Fate(last, host.calls, q)
        b == Fate(twin, twin.calls, q)
    IN  /\ a = b
        /\ a = "returned" => last.parts[Pos(q)] = twin.parts[Pos(q)]
        /\ a = "raised" => last.error = twin.error

\* C9 (as stated): in two runs of collect_cpu_metrics() that differ only in how
\* one facility query is answered, every other sub-query has the same outcome:
\* whether it succeeds, and the value it contributes.
C9_Independent ==
    twin.changed # "none" =>
        \A q \in Queries \ {twin.changed} : SameOutcome(q)

Ends(run) ==
    /\ Answered(run, twin.changed)
    /\ ~Recovered(twin.changed, run.answers[twin.changed])

\* C9 (amended): in two such runs, every sub-query that comes before the differing
\* one has the same outcome in both; so has every other sub-query when the
\* differing query ends neither run, that is, when in each run it succeeds or is
\* the unsupported load average.  A query that raises any other failure ends its
\* run, and the sub-queries after it are not invoked in that run.
C9_IndependentUnlessRaised ==
    twin.changed # "none" =>
        \A q \in Queries \ {twin.changed} :
            (Pos(q) < Pos(twin.changed) \/ (~Ends(last) /\ ~Ends(twin))) =>
                SameOutcome(q)

C9_Witness ==
    /\ twin.changed = "getloadavg"
    /\ last.status = "returned"
    /\ twin.status = "returned"
    /\ last.answers["getloadavg"] = "ok"
    /\ twin.answers["getloadavg"] = "NotImplementedError"
    /\ last.parts[5] = twin.parts[5]
    /\ last.parts[4] # twin.parts[4]

IsPrefix(a, b) ==
    /\ Len(a) <= Len(b)
    /\ \A i \in 1..Len(a) : a[i] = b[i]

\* C10: collect_cpu_metrics() reads the clock, then makes the per-core, average,
\* load-average and times queries in that order, each at most once, and all of
\* them when it returns a record; when a step raises, no later step is invoked.
C10_FixedOrder ==
    IsCall("collect_cpu_metrics") =>
        /\ IsPrefix(host.calls, Order)
        /\ Len(host.calls) >= 2
        /\ last.status = "returned" => host.calls = Order
        /\ \A i \in 2..Len(host.calls) :
              Recovered(Order[i], last.answers[Order[i]]) <=>
                  (i < Len(host.calls) \/ last.status = "returned")

C10_Witness ==
    /\ IsCall("collect_cpu_metrics")
    /\ last.status = "raised"
    /\ Answered(last, "cpu_percent(percpu=False)")
    /\ last.answers["cpu_percent(percpu=False)"] = "OSError"
    /\ host.calls = <<"time.time", "cpu_percent(percpu=True)", "cpu_percent(percpu=False)">>

=============================================================================
